---- MODULE Spec2Model ----
(***************************************************************************)
(* A model of prefect.utilities.collections.visit_collection: the          *)
(* recursive visitor over nested Python collections, as a machine with an  *)
(* explicit call stack.  One frame of `stack` is one activation of         *)
(* visit_collection; `log` records every call of visit_fn; `ctxs` is the   *)
(* heap of context dictionaries (a context is held by reference, and       *)
(* context.copy() allocates a new dictionary).                             *)
(*                                                                         *)
(* The module also models dict_to_flatdict / flatdict_to_dict and          *)
(* batched_iterable of the same file, ECSRun.__init__ of                   *)
(* prefect.run_configs.ecs, and run_in_loop_thread of                      *)
(* prefect._internal.concurrency.event_loop, each under a specification of *)
(* its own (SpecFlat, SpecBatch, SpecEcs, SpecLoop) in which the variables *)
(* of the other functions stay idle.                                       *)
(***************************************************************************)
EXTENDS Integers, Sequences, FiniteSets, TLC

VARIABLES root, visit_fn, return_data, max_depth, context,
          stack, log, ctxs, status, result

\* dict_to_flatdict / flatdict_to_dict: the nested mapping, its flat form,
\* the mapping flatdict_to_dict is building, the number of items its loop has
\* taken, and the position in the code
VARIABLES fd_dct, fd_flat, fd_result, fd_i, fd_pc

\* batched_iterable: its arguments, what is left in the iterator `it`, the
\* batches yielded so far, the exception that left the generator, and the
\* generator's position
VARIABLES bi_iterable, bi_size, bi_it, bi_batches, bi_exc, bi_pc

\* ECSRun.__init__: the keyword arguments, the attributes of the object once
\* it is constructed, the exception that left the constructor, and the
\* constructor's position
VARIABLES ecs_kwargs, ecs_self, ecs_exc, ecs_pc

\* run_in_loop_thread: the thread that makes the call, what fn does, the
\* callbacks the loop has scheduled, what the loop's thread is running, whether
\* the loop still runs, how far fn is, the threads fn was executed on, the
\* future, the caller's position and what the call gave the caller
VARIABLES rl_caller, rl_fn, rl_ready, rl_running, rl_loop, rl_fn_pc, rl_calls,
          rl_future, rl_caller_pc, rl_outcome

visitVars == <<root, visit_fn, return_data, max_depth, context,
               stack, log, ctxs, status, result>>
flatVars == <<fd_dct, fd_flat, fd_result, fd_i, fd_pc>>

batchVars == <<bi_iterable, bi_size, bi_it, bi_batches, bi_exc, bi_pc>>
ecsVars == <<ecs_kwargs, ecs_self, ecs_exc, ecs_pc>>
loopVars == <<rl_caller, rl_fn, rl_ready, rl_running, rl_loop, rl_fn_pc, rl_calls,
              rl_future, rl_caller_pc, rl_outcome>>

vars == <<visitVars, flatVars, batchVars, ecsVars, loopVars>>

\* the variables of the functions other than visit_collection, which a call
\* of visit_collection leaves alone
notVisitVars == <<flatVars, batchVars, ecsVars, loopVars>>
notFlatVars == <<visitVars, batchVars, ecsVars, loopVars>>
notBatchVars == <<visitVars, flatVars, ecsVars, loopVars>>
notEcsVars == <<visitVars, flatVars, batchVars, loopVars>>
notLoopVars == <<visitVars, flatVars, batchVars, ecsVars>>

\* no call of visit_collection is in progress
VisitIdle ==
    /\ root = "idle" /\ visit_fn = "idle" /\ return_data = FALSE
    /\ max_depth = 0 /\ context = 0 /\ stack = <<>> /\ log = <<>>
    /\ ctxs = <<>> /\ status = "idle" /\ result = "idle"

\* no call of dict_to_flatdict / flatdict_to_dict is in progress
FlatIdle ==
    /\ fd_dct = "idle" /\ fd_flat = "idle" /\ fd_result = "idle"
    /\ fd_i = 0 /\ fd_pc = "idle"

\* no generator of batched_iterable exists
BatchIdle ==
    /\ bi_iterable = <<>> /\ bi_size = 0 /\ bi_it = <<>> /\ bi_batches = <<>>
    /\ bi_exc = "idle" /\ bi_pc = "idle"

\* no ECSRun is being constructed
EcsIdle ==
    /\ ecs_kwargs = "idle" /\ ecs_self = "idle" /\ ecs_exc = "idle" /\ ecs_pc = "idle"

\* no call of run_in_loop_thread is in progress
LoopIdle ==
    /\ rl_caller = "idle" /\ rl_fn = "idle" /\ rl_ready = <<>> /\ rl_running = "idle"
    /\ rl_loop = "idle" /\ rl_fn_pc = "idle" /\ rl_calls = <<>> /\ rl_future = "idle"
    /\ rl_caller_pc = "idle" /\ rl_outcome = "idle"

(* ----------------------------- bounds ---------------------------------- *)

\* nesting levels of the generated root expressions
MaxNest == 1
\* the max_depth arguments tried are -MaxNegDepth .. MaxDepthArg
MaxDepthArg == 2
MaxNegDepth == 2

(* ----------------------------- values ---------------------------------- *)

None == [cat |-> "none"]
PyInt(n) == [cat |-> "int", v |-> n]
MockObj(n) == [cat |-> "mock", id |-> n]
List(s) == [cat |-> "list", items |-> s]
Tuple(s) == [cat |-> "tuple", items |-> s]
PySet(S) == [cat |-> "set", elems |-> S]
Iter(s) == [cat |-> "iterator", items |-> s]
\* typ is "dict" or "OrderedDict"; pairs is the insertion-ordered <<key, value>> list
Dict(typ, pairs) == [cat |-> "dict", typ |-> typ, pairs |-> pairs]
DataclassObj(cls, vals) == [cat |-> "dataclass", cls |-> cls, vals |-> vals]
ModelObj(cls, vals, fset, priv) ==
    [cat |-> "model", cls |-> cls, vals |-> vals, fields_set |-> fset, private |-> priv]
Quote(x) == [cat |-> "quote", inner |-> x]
Revisit(x) == [cat |-> "revisit", inner |-> x]

\* an exception raised while a container is rebuilt
Raised(kind) == [cat |-> "exception", kind |-> kind]

Range(s) == {s[i] : i \in DOMAIN s}

RECURSIVE SetToSeq(_)
\* the iteration order of an unordered collection: arbitrary, but the same
\* every time the same collection is iterated
SetToSeq(S) ==
    IF S = {} THEN <<>>
    ELSE LET x == CHOOSE y \in S : TRUE IN <<x>> \o SetToSeq(S \ {x})

RECURSIVE Hashable(_)
Hashable(x) ==
    CASE x.cat \in {"none", "int", "mock", "iterator"} -> TRUE
      [] x.cat = "tuple" -> \A i \in DOMAIN x.items : Hashable(x.items[i])
      [] x.cat \in {"quote", "revisit"} -> Hashable(x.inner)
      [] OTHER -> FALSE

(* ------------------------- record classes ------------------------------ *)

\* @dataclass class P: a: Any; b: Any
DataclassFields(cls) == <<"a", "b">>

\* class M(pydantic.BaseModel): x: Any = Field(0, alias="X"); y: Any = 2;
\*                              _z: Any = PrivateAttr(0)        (extra ignored)
\* class E(pydantic.BaseModel): y: Any = 2;  Config.extra = "allow"
ModelFieldNames(cls) == IF cls = "M" THEN {"x", "y"} ELSE {"y"}
HasAlias(cls, key) == cls = "M" /\ key = "x"
FieldAlias(cls, key) == IF HasAlias(cls, key) THEN "X" ELSE key
FieldDefault(cls, key) == IF key = "x" THEN PyInt(0) ELSE PyInt(2)
ExtraAllowed(cls) == cls = "E"
PrivateAttributes(cls) == IF cls = "M" THEN {"_z"} ELSE {}
PrivateDefault(cls) == [a \in PrivateAttributes(cls) |-> PyInt(0)]

\* typ(**kwargs) of a pydantic model: every declared field is looked up under
\* its alias, a field not supplied takes its default, and a keyword that names
\* no field is kept only by a class that allows extras
ModelInit(cls, kwargs) ==
    LET declared == ModelFieldNames(cls)
        used  == {FieldAlias(cls, f) : f \in declared}
        extra == IF ExtraAllowed(cls) THEN DOMAIN kwargs \ used ELSE {}
        given == {f \in declared : FieldAlias(cls, f) \in DOMAIN kwargs}
    IN ModelObj(cls,
                [f \in declared \cup extra |->
                    IF f \in extra THEN kwargs[f]
                    ELSE IF f \in given THEN kwargs[FieldAlias(cls, f)]
                    ELSE FieldDefault(cls, f)],
                given \cup extra,
                PrivateDefault(cls))

\* typ(**items) of a dataclass: every field is an __init__ parameter
DataclassInit(cls, kwargs) ==
    IF DOMAIN kwargs = Range(DataclassFields(cls))
    THEN DataclassObj(cls, kwargs)
    ELSE Raised("TypeError")

(* --------------------------- the inputs -------------------------------- *)

Leaves == {PyInt(1), PyInt(2), MockObj(1)}

\* the containers built around one expression t
Wrap(t) ==
    { List(<<t, PyInt(2)>>),
      Tuple(<<PyInt(1), t>>),
      Dict("dict", << <<PyInt(1), t>> >>),
      DataclassObj("P", [f \in {"a", "b"} |-> IF f = "a" THEN t ELSE PyInt(1)]),
      ModelObj("M", [f \in {"x", "y"} |-> IF f = "x" THEN t ELSE PyInt(2)],
               {"x"}, [a \in {"_z"} |-> PyInt(9)]),
      Quote(t),
      Revisit(t) }
    \cup (IF Hashable(t) THEN {PySet({t, PyInt(1)})} ELSE {})

RECURSIVE Tree(_)
Tree(n) ==
    IF n = 0 THEN Leaves
    ELSE LET T == Tree(n - 1) IN T \cup UNION {Wrap(t) : t \in T}

\* deeper shapes, tried at the top level only
Extras ==
    { None,
      Iter(<<PyInt(1), PyInt(2)>>),
      Dict("OrderedDict", << <<Tuple(<<PyInt(1)>>), PyInt(2)>>, <<PyInt(2), List(<<PyInt(1)>>)>> >>),
      ModelObj("E", [f \in {"y", "e"} |-> IF f = "y" THEN PyInt(2) ELSE List(<<PyInt(1)>>)],
               {"e"}, <<>>),
      List(<<MockObj(1), List(<<PyInt(1), PyInt(2)>>), PyInt(2)>>),
      List(<<Tuple(<<MockObj(1), PyInt(2)>>), PyInt(1)>>),
      Dict("dict", << <<PyInt(1),
                        Dict("dict", << <<PyInt(2),
                                          Dict("dict", << <<PyInt(1), PyInt(2)>> >>)>> >>)>> >>),
      List(<<List(<<Revisit(List(<<PyInt(2)>>))>>), Quote(Tuple(<<PyInt(1), PyInt(2)>>))>>),
      ModelObj("M", [f \in {"x", "y"} |->
                       IF f = "x"
                       THEN DataclassObj("P", [g \in {"a", "b"} |->
                               IF g = "a" THEN PySet({PyInt(1), PyInt(2)}) ELSE PyInt(2)])
                       ELSE List(<<PyInt(1)>>)],
               {"x", "y"}, [a \in {"_z"} |-> List(<<PyInt(2)>>)]),
      Revisit(Revisit(PyInt(2))),
      PySet({Tuple(<<PyInt(1), PyInt(2)>>), PyInt(2)}) }

Roots == Tree(MaxNest) \cup Extras

VisitFns == {"identity", "add_one", "return_none", "resolve"}

\* visit_fn(expr): the visitors tried.  "resolve" replaces the leaf 2 by a
\* revisit annotation around a list, the way a visitor asks for its
\* replacement to be visited in turn.
Apply(fn, x) ==
    CASE fn = "identity" -> x
      [] fn = "add_one" -> IF x.cat = "int" THEN PyInt(x.v + 1) ELSE x
      [] fn = "return_none" -> None
      [] fn = "resolve" -> IF x = PyInt(2) THEN Revisit(List(<<PyInt(1)>>)) ELSE x

\* what the visitor does to the context dictionary it is handed
Mutate(ctx) == [ctx EXCEPT !.count = @ + 1]

(* ------------------------ visit_collection ----------------------------- *)

\* expr.unwrap() of an annotation
Unwrap(expr) == expr.inner

\* the branch of the if/elif chain an expression takes
Category(expr) ==
    CASE expr.cat = "mock" -> "mock"
      [] expr.cat \in {"list", "tuple", "set", "iterator"} -> "sequence"
      [] expr.cat = "dict" -> "mapping"
      [] expr.cat = "dataclass" -> "dataclass"
      [] expr.cat = "model" -> "pydantic"
      [] expr.cat = "revisit" -> "revisit"
      [] expr.cat = "quote" -> "annotation"
      [] OTHER -> "other"

\* typ: the type rebuilt in copy mode; iterators are treated like lists
Typ(expr) == IF expr.cat = "iterator" THEN "list" ELSE expr.cat

\* model_fields = expr.__fields_set__.union(expr.__fields__), in iteration order
ModelFields(expr) == SetToSeq(expr.fields_set \cup ModelFieldNames(expr.cls))

RECURSIVE FlattenPairs(_)
FlattenPairs(pairs) ==
    IF pairs = <<>> THEN <<>>
    ELSE <<pairs[1][1], pairs[1][2]>> \o FlattenPairs(Tail(pairs))

\* Children with the comprehension over a list, tuple or set stopping one
\* element early
ChildrenSkipLast(expr) ==
    CASE Category(expr) = "sequence" ->
            LET all == IF expr.cat = "set" THEN SetToSeq(expr.elems) ELSE expr.items
            IN SubSeq(all, 1, Len(all) - 1)
      [] Category(expr) = "mapping" -> FlattenPairs(expr.pairs)
      [] Category(expr) = "dataclass" ->
            [i \in DOMAIN DataclassFields(expr.cls) |-> expr.vals[DataclassFields(expr.cls)[i]]]
      [] Category(expr) = "pydantic" ->
            [i \in DOMAIN ModelFields(expr) |-> expr.vals[ModelFields(expr)[i]]]
      [] Category(expr) \in {"revisit", "annotation"} -> <<Unwrap(expr)>>
      [] OTHER -> <<>>

\* the expressions visit_nested is called on, in call order
Children(expr) ==
    CASE Category(expr) = "sequence" ->
            IF expr.cat = "set" THEN SetToSeq(expr.elems) ELSE expr.items
      [] Category(expr) = "mapping" -> FlattenPairs(expr.pairs)
      [] Category(expr) = "dataclass" ->
            [i \in DOMAIN DataclassFields(expr.cls) |-> expr.vals[DataclassFields(expr.cls)[i]]]
      [] Category(expr) = "pydantic" ->
            [i \in DOMAIN ModelFields(expr) |-> expr.vals[ModelFields(expr)[i]]]
      [] Category(expr) \in {"revisit", "annotation"} -> <<Unwrap(expr)>>
      [] OTHER -> <<>>

\* SequenceInit always building a list
SequenceInitAsList(typ, items) == List(items)

\* SequenceInit keeping whatever it is given, hashable or not
SequenceInitUnchecked(typ, items) ==
    CASE typ = "list" -> List(items)
      [] typ = "tuple" -> Tuple(items)
      [] typ = "set" -> PySet(Range(items))

\* list(items), tuple(items), set(items)
SequenceInit(typ, items) ==
    CASE typ = "list" -> List(items)
      [] typ = "tuple" -> Tuple(items)
      [] typ = "set" ->
            IF \A i \in DOMAIN items : Hashable(items[i])
            THEN PySet(Range(items))
            ELSE Raised("TypeError")

RECURSIVE DictPairs(_, _)
\* inserting (key, value) pairs one by one: a key already present keeps its
\* place and takes the later value
DictPairs(done, items) ==
    IF items = <<>> THEN done
    ELSE LET k == items[1]
             v == items[2]
             at == {i \in DOMAIN done : done[i][1] = k}
         IN DictPairs(IF at = {} THEN Append(done, <<k, v>>)
                      ELSE [i \in DOMAIN done |-> IF i \in at THEN <<k, v>> ELSE done[i]],
                      SubSeq(items, 3, Len(items)))

\* dict(items), OrderedDict(items) from the visited keys and values k1, v1, k2, v2, ...
DictInit(typ, items) ==
    IF \A i \in DOMAIN items : (i % 2 = 1) => Hashable(items[i])
    THEN Dict(typ, DictPairs(<<>>, items))
    ELSE Raised("TypeError")

\* Keyword ignoring the aliases
KeywordNoAlias(expr, key) == key

\* the keyword a field is passed under: aliases.get(key) or key
Keyword(expr, key) ==
    IF key \in ModelFieldNames(expr.cls) /\ HasAlias(expr.cls, key)
    THEN FieldAlias(expr.cls, key) ELSE key

\* the rebuilt pydantic model, with the private attributes restored
ModelCopy(expr, items) ==
    LET model_fields == ModelFields(expr)
        kw == {Keyword(expr, model_fields[i]) : i \in DOMAIN model_fields}
        kwargs == [k \in kw |->
                     items[CHOOSE i \in DOMAIN model_fields : Keyword(expr, model_fields[i]) = k]]
        model_instance == ModelInit(expr.cls, kwargs)
    IN [model_instance EXCEPT
          !.private = [a \in PrivateAttributes(expr.cls) |-> expr.private[a]]]

\* the rebuilt dataclass
DataclassCopy(expr, values) ==
    LET names == DataclassFields(expr.cls)
    IN DataclassInit(expr.cls,
          [f \in Range(names) |-> values[CHOOSE i \in DOMAIN names : names[i] = f]])

\* expr.rewrap(value) of an annotation
Rewrap(expr, value) == [expr EXCEPT !.inner = value]

\* MockResult handing out a copy of the mock, a different object
MockResultCopied(expr) == MockObj(expr.id + 1)

\* line 291: a mock is returned as it is
MockResult(expr) == expr

\* RevisitResult wrapping the result again, as the other annotations do
RevisitResultRewrapped(items) == Revisit(items[1])

\* line 342: the result of visiting what the revisit annotation wraps
RevisitResult(items) == items[1]

\* line 345: the annotation around the result of visiting what it wraps
AnnotationResult(expr, items) == Rewrap(expr, items[1])

\* the value of `result` when the function returns: r is what visit_fn
\* returned, expr the expression after line 276, items the visit_nested results
Result(rd, depth, expr, r, items) ==
    IF depth = 0 THEN (IF rd THEN r ELSE None)
    ELSE CASE Category(expr) = "mock" -> MockResult(expr)
           [] Category(expr) = "sequence" ->
                 IF rd THEN SequenceInit(Typ(expr), items) ELSE None
           [] Category(expr) = "mapping" ->
                 IF rd THEN DictInit(expr.typ, items) ELSE None
           [] Category(expr) = "dataclass" ->
                 IF rd THEN DataclassCopy(expr, items) ELSE None
           [] Category(expr) = "pydantic" ->
                 IF rd THEN ModelCopy(expr, items) ELSE None
           [] Category(expr) = "revisit" -> RevisitResult(items)
           [] Category(expr) = "annotation" -> AnnotationResult(expr, items)
           [] OTHER -> IF rd THEN r ELSE None

(* --------------------------- the machine ------------------------------- *)

NoContext == [absent |-> TRUE]
Pending == [cat |-> "pending"]

\* the dictionary a context reference names (0 is context=None)
Deref(heap, ref) == IF ref = 0 THEN NoContext ELSE heap[ref]

\* NestedDepth without the decrement
NestedDepthSame(depth) == depth

\* max_depth of a nested call
NestedDepth(depth) == depth - 1

\* NestedContext without the copy: the nested call shares the dictionary
NestedContextShared(heap, ref) == ref

\* context of a nested call: context.copy() if context is not None else None
NestedContext(heap, ref) == IF ref = 0 THEN 0 ELSE Len(heap) + 1

\* the heap once the context of a nested call is allocated
NestedHeap(heap, ref) == IF ref = 0 THEN heap ELSE Append(heap, heap[ref])

\* Basis deciding on the class of the visited expression
BasisByVisited(rd, expr, r) == IF rd \/ expr.cat = "revisit" THEN r ELSE expr

\* the expression the children are taken from (lines 273-276)
Basis(rd, expr, r) == IF rd \/ r.cat = "revisit" THEN r ELSE expr

\* a fresh activation of visit_collection
Frame(expr, path, depth, ref) ==
    [expr |-> expr, basis |-> expr, r |-> Pending, path |-> path,
     max_depth |-> depth, context |-> ref, kids |-> <<>>, items |-> <<>>,
     pc |-> "visit"]

top == stack[Len(stack)]

Init ==
    /\ root \in Roots
    /\ visit_fn \in VisitFns
    /\ return_data \in BOOLEAN
    /\ max_depth \in -MaxNegDepth .. MaxDepthArg
    /\ context \in {0, 1}
    /\ ctxs = IF context = 0 THEN <<>> ELSE <<[count |-> 0]>>
    /\ stack = <<Frame(root, <<>>, max_depth, context)>>
    /\ log = <<>>
    /\ status = "running"
    /\ result = Pending
    /\ FlatIdle
    /\ BatchIdle
    /\ EcsIdle
    /\ LoopIdle

\* lines 264-282: call visit_fn on the expression, choose the expression to
\* descend into, and stop at depth 0
VisitExpression ==
    /\ status = "running"
    /\ top.pc = "visit"
    /\ LET r == Apply(visit_fn, top.expr)
           basis == Basis(return_data, top.expr, r)
           kids == IF top.max_depth = 0 THEN <<>> ELSE Children(basis)
           heap == IF top.context = 0 THEN ctxs
                   ELSE [ctxs EXCEPT ![top.context] = Mutate(@)]
       IN /\ ctxs' = heap
          /\ log' = Append(log, [path |-> top.path, node |-> top.expr, r |-> r,
                                 basis |-> basis, depth |-> top.max_depth,
                                 ctx_in |-> Deref(ctxs, top.context),
                                 ctx_out |-> Deref(heap, top.context),
                                 res |-> Pending])
          /\ stack' = [stack EXCEPT ![Len(stack)] =
                         [@ EXCEPT !.r = r, !.basis = basis, !.kids = kids,
                                   !.pc = "nested"]]
    /\ UNCHANGED <<root, visit_fn, return_data, max_depth, context, status, result>>
    /\ UNCHANGED notVisitVars

\* lines 253-262: the next visit_nested call of the running comprehension
VisitNested ==
    /\ status = "running"
    /\ top.pc = "nested"
    /\ Len(top.items) < Len(top.kids)
    /\ LET k == Len(top.items) + 1
       IN stack' = Append(stack, Frame(top.kids[k], Append(top.path, k),
                                       NestedDepth(top.max_depth),
                                       NestedContext(ctxs, top.context)))
    /\ ctxs' = NestedHeap(ctxs, top.context)
    /\ UNCHANGED <<root, visit_fn, return_data, max_depth, context, log, status, result>>
    /\ UNCHANGED notVisitVars

ReturnValue == Result(return_data, top.max_depth, top.basis, top.r, top.items)

\* lines 282-350: every child is visited; build the result and return it to
\* the caller (the enclosing comprehension, or the caller of visit_collection)
Return ==
    /\ status = "running"
    /\ top.pc = "nested"
    /\ Len(top.items) = Len(top.kids)
    /\ ReturnValue.cat # "exception"
    /\ log' = [i \in DOMAIN log |->
                 IF log[i].path = top.path THEN [log[i] EXCEPT !.res = ReturnValue]
                 ELSE log[i]]
    /\ IF Len(stack) = 1
       THEN /\ stack' = <<>>
            /\ status' = "returned"
            /\ result' = ReturnValue
       ELSE /\ stack' = [SubSeq(stack, 1, Len(stack) - 1) EXCEPT ![Len(stack) - 1] =
                            [@ EXCEPT !.items = Append(@, ReturnValue)]]
            /\ UNCHANGED <<status, result>>
    /\ UNCHANGED <<root, visit_fn, return_data, max_depth, context, ctxs>>
    /\ UNCHANGED notVisitVars

\* rebuilding the container raises: the exception leaves every enclosing
\* call and reaches the caller of visit_collection
Raise ==
    /\ status = "running"
    /\ top.pc = "nested"
    /\ Len(top.items) = Len(top.kids)
    /\ ReturnValue.cat = "exception"
    /\ stack' = <<>>
    /\ status' = "raised"
    /\ result' = ReturnValue
    /\ UNCHANGED <<root, visit_fn, return_data, max_depth, context, log, ctxs>>
    /\ UNCHANGED notVisitVars

Next == VisitExpression \/ VisitNested \/ Return \/ Raise

Spec == Init /\ [][Next]_vars

(* ----------------------------- properties ------------------------------ *)

Front(p) == SubSeq(p, 1, Len(p) - 1)

\* the calls of visit_fn made on the children of the node visited at path p
CallsBelow(p) == {j \in DOMAIN log : log[j].path # <<>> /\ Front(log[j].path) = p}

\* the nodes directly inside a node: elements, keys and values, field values,
\* the wrapped value; a mock and a leaf have none
SubNodes(x) ==
    CASE x.cat \in {"list", "tuple", "iterator"} -> Range(x.items)
      [] x.cat = "set" -> x.elems
      [] x.cat = "dict" -> {x.pairs[i][1] : i \in DOMAIN x.pairs}
                           \cup {x.pairs[i][2] : i \in DOMAIN x.pairs}
      [] x.cat \in {"dataclass", "model"} -> Range(x.vals)
      [] x.cat \in {"quote", "revisit"} -> {x.inner}
      [] OTHER -> {}

\* how many nodes are directly inside a node
SubNodeCount(x) ==
    CASE x.cat \in {"list", "tuple", "iterator"} -> Len(x.items)
      [] x.cat = "set" -> Cardinality(x.elems)
      [] x.cat = "dict" -> 2 * Len(x.pairs)
      [] x.cat \in {"dataclass", "model"} -> Cardinality(DOMAIN x.vals)
      [] x.cat \in {"quote", "revisit"} -> 1
      [] OTHER -> 0

\* C1: visit_fn is called on the root first, on a node only after its parent
\* (pre-order), and on every node directly inside each node the traversal
\* descends into (elements, keys and values, fields, wrapped values), as often
\* as there are such nodes; with a negative max_depth every call descends.
C1_PreOrderEveryNode ==
    /\ log # <<>> => log[1].path = <<>> /\ log[1].node = root
    /\ \A j \in DOMAIN log :
          log[j].path # <<>> => \E i \in 1 .. j - 1 : log[i].path = Front(log[j].path)
    /\ \A i \in DOMAIN log :
          log[i].res # Pending /\ log[i].depth # 0 =>
             /\ \A c \in SubNodes(log[i].basis) :
                   \E j \in CallsBelow(log[i].path) : j > i /\ log[j].node = c
             /\ Cardinality(CallsBelow(log[i].path)) = SubNodeCount(log[i].basis)
    /\ max_depth < 0 => \A i \in DOMAIN log : log[i].depth # 0

C1_Witness ==
    /\ status = "returned"
    /\ max_depth < 0
    /\ root.cat = "dict"
    /\ Len(log) >= 7

\* C2: the context a child is visited with is, on entry, the context its
\* parent had right after visit_fn ran on the parent, whatever the children
\* visited before it did to theirs; and the context of a call that is still
\* visiting its children stays what visit_fn left it.
C2_ContextForkedPerChild ==
    context # 0 =>
       /\ \A j \in DOMAIN log :
             log[j].path # <<>> =>
                \E i \in 1 .. j - 1 : /\ log[i].path = Front(log[j].path)
                                      /\ log[j].ctx_in = log[i].ctx_out
       /\ \A k \in DOMAIN stack :
             stack[k].pc = "nested" =>
                \E i \in DOMAIN log : /\ log[i].path = stack[k].path
                                      /\ Deref(ctxs, stack[k].context) = log[i].ctx_out

C2_Witness ==
    /\ status = "returned"
    /\ context # 0
    /\ \E a, b, c \in DOMAIN log :
          /\ log[a].path = <<1>>
          /\ log[b].path = <<1, 1>>
          /\ log[c].path = <<2>>
          /\ log[c].ctx_in = log[1].ctx_out
          /\ log[b].ctx_out # log[c].ctx_in

\* C3 as claimed: the caller's context has, after the call, the contents it
\* had before the call.
C3_CallerContextUntouched ==
    status = "returned" /\ context # 0 => ctxs[context] = [count |-> 0]

\* C3: after the call the caller's context holds what visit_fn did to it at
\* the root node (the root is visited with the caller's own dictionary) and
\* nothing of what visit_fn did at any node below the root.
C3_CallerContextHoldsRootVisitOnly ==
    context # 0 /\ log # <<>> =>
       /\ ctxs[context] = log[1].ctx_out
       /\ ctxs[context] = Mutate([count |-> 0])

C3_Witness ==
    /\ status = "returned"
    /\ context # 0
    /\ Len(log) >= 4
    /\ ctxs[context] = [count |-> 1]

\* C4: a call at nesting level n runs with the budget max_depth - n; with a
\* non-negative max_depth no node deeper than max_depth is visited, a node
\* reached with budget 0 is visited and nothing inside it is, and a node
\* reached with any other budget has every node inside it visited; a negative
\* budget never reaches 0.
C4_DepthBudget ==
    \A i \in DOMAIN log :
       /\ log[i].depth = max_depth - Len(log[i].path)
       /\ max_depth >= 0 => Len(log[i].path) <= max_depth
       /\ max_depth < 0 => log[i].depth < 0
       /\ log[i].depth = 0 => CallsBelow(log[i].path) = {}
       /\ log[i].depth # 0 /\ log[i].res # Pending =>
             Cardinality(CallsBelow(log[i].path)) = SubNodeCount(log[i].basis)

C4_Witness ==
    /\ status = "returned"
    /\ max_depth = 1
    /\ \E i, j \in DOMAIN log :
          /\ log[i].depth = 0
          /\ SubNodeCount(log[i].basis) > 0
          /\ log[j].depth = 0
          /\ SubNodeCount(log[j].basis) = 0

\* C5 as claimed: with return_data false, visit_collection returns None for
\* every root expression and every max_depth.
C5_ObserveOnlyReturnsNone ==
    status = "returned" /\ ~return_data => result = None

\* C6: a call that goes on with a revisit annotation and a non-zero budget,
\* with return_data true or false, visits what the annotation wraps, and
\* returns what that visit returned, not a revisit annotation around it.
C6_RevisitUnwrapped ==
    \A i \in DOMAIN log :
       log[i].basis.cat = "revisit" /\ log[i].depth # 0 /\ log[i].res # Pending =>
          \E j \in DOMAIN log :
             /\ log[j].path = Append(log[i].path, 1)
             /\ log[j].node = log[i].basis.inner
             /\ log[i].res = log[j].res
             /\ log[i].res # Revisit(log[j].res)

C6_Witness ==
    /\ status = "returned"
    /\ ~return_data
    /\ visit_fn = "resolve"
    /\ \E i, j \in DOMAIN log :
          /\ log[i].node = PyInt(2)
          /\ log[i].basis = Revisit(List(<<PyInt(1)>>))
          /\ log[i].res = None
          /\ log[j].path = Append(log[i].path, 1)
          /\ log[j].node = List(<<PyInt(1)>>)

RECURSIVE AllNodes(_)
\* a node and every node inside it
AllNodes(x) == {x} \cup UNION {AllNodes(c) : c \in SubNodes(x)}

RECURSIVE PyEq(_, _)
\* structural equality, container types included; the record of which fields
\* of a model were set explicitly is not part of it
PyEq(a, b) ==
    IF a.cat # b.cat THEN FALSE
    ELSE CASE a.cat \in {"list", "tuple", "iterator"} ->
                 /\ Len(a.items) = Len(b.items)
                 /\ \A i \in DOMAIN a.items : PyEq(a.items[i], b.items[i])
           [] a.cat = "set" -> a.elems = b.elems
           [] a.cat = "dict" ->
                 /\ a.typ = b.typ
                 /\ Len(a.pairs) = Len(b.pairs)
                 /\ \A i \in DOMAIN a.pairs :
                       /\ a.pairs[i][1] = b.pairs[i][1]
                       /\ PyEq(a.pairs[i][2], b.pairs[i][2])
           [] a.cat \in {"dataclass", "model"} ->
                 /\ a.cls = b.cls
                 /\ DOMAIN a.vals = DOMAIN b.vals
                 /\ \A f \in DOMAIN a.vals : PyEq(a.vals[f], b.vals[f])
           [] a.cat \in {"quote", "revisit"} -> PyEq(a.inner, b.inner)
           [] OTHER -> a = b

\* a composition of sequences, sets, mappings, records and tagged wrappers
Composition(x) == \A n \in AllNodes(x) : n.cat \notin {"revisit", "iterator"}

\* C7: with the identity visit_fn, return_data true and unlimited depth, the
\* value returned for a composition of lists, tuples, sets, mappings, records
\* and annotations is structurally equal to the input, container types included.
C7_IdentityCopy ==
    /\ status = "returned"
    /\ visit_fn = "identity"
    /\ return_data
    /\ max_depth < 0
    /\ Composition(root)
    => PyEq(result, root)

C7_Witness ==
    /\ status = "returned"
    /\ visit_fn = "identity"
    /\ return_data
    /\ max_depth < 0
    /\ root.cat = "model"
    /\ root.cls = "M"
    /\ root.vals["x"].cat = "dataclass"
    /\ result.vals["x"].vals["a"] = PySet({PyInt(1), PyInt(2)})
    /\ PyEq(result, root)

WellFormed(x) ==
    \A n \in AllNodes(x) :
       /\ n.cat = "set" => \A e \in n.elems : Hashable(e)
       /\ n.cat = "dict" => \A i \in DOMAIN n.pairs : Hashable(n.pairs[i][1])

C10_ModelRebuilt ==
    \A i \in DOMAIN log :
       /\ log[i].basis.cat = "model"
       /\ return_data
       /\ log[i].depth # 0
       /\ log[i].res # Pending
       => LET old == log[i].basis
              new == log[i].res
              model_fields == old.fields_set \cup ModelFieldNames(old.cls)
          IN /\ Cardinality(CallsBelow(log[i].path)) = Cardinality(model_fields)
             /\ new.cat = "model"
             /\ new.cls = old.cls
             /\ DOMAIN new.vals = model_fields
             /\ \A f \in model_fields :
                   \E j \in CallsBelow(log[i].path) :
                      log[j].node = old.vals[f] /\ log[j].res = new.vals[f]
             /\ new.private = old.private

C10_Witness ==
    /\ status = "returned"
    /\ return_data
    /\ visit_fn = "add_one"
    /\ max_depth < 0
    /\ root.cat = "model"
    /\ root.cls = "M"
    /\ root.fields_set = {"x"}
    /\ root.vals["x"] = PyInt(1)
    /\ result.vals["x"] = PyInt(2)
    /\ result.vals["y"] = PyInt(3)
    /\ result.private["_z"] = PyInt(9)

(* ------------------- dict_to_flatdict / flatdict_to_dict ---------------- *)

\* nesting levels of the generated nested mappings
MaxFlatNest == 2

\* the values a nested mapping ends in: plain values and empty mappings
FlatLeaves == {PyInt(1), PyInt(2), Dict("dict", <<>>), Dict("OrderedDict", <<>>)}

\* the mappings with t under key 1: alone, followed or preceded by a plain
\* entry, or beside a second nested mapping
FlatWrap(t) ==
    UNION {{Dict(typ, <<<<PyInt(1), t>>>>),
            Dict(typ, <<<<PyInt(1), t>>, <<PyInt(2), PyInt(2)>>>>),
            Dict(typ, <<<<PyInt(2), PyInt(1)>>, <<PyInt(1), t>>>>),
            Dict(typ, <<<<PyInt(1), t>>,
                        <<PyInt(2), Dict("dict", <<<<PyInt(1), PyInt(2)>>>>)>>>>)}
           : typ \in {"dict", "OrderedDict"}}

RECURSIVE FlatTree(_)
FlatTree(n) ==
    IF n = 0 THEN FlatLeaves
    ELSE FlatTree(n - 1) \cup UNION {FlatWrap(t) : t \in FlatTree(n - 1)}

\* the nested mappings dict_to_flatdict is called on
FlatRoots == {t \in FlatTree(MaxFlatNest) : t.cat = "dict"}

\* RecurseInto entering every mapping value, the empty ones too
RecurseIntoEmptyToo(v) == v.cat = "dict"

\* line 95: isinstance(v, dict) and v
RecurseInto(v) == v.cat = "dict" /\ v.pairs # <<>>

\* line 93: tuple(parent + (k,))
KParent(parent, k) == Append(parent, k)

RECURSIVE FlatItems(_, _)
\* lines 89-98: the list `items` built by the loop over dct.items(); a
\* non-empty mapping value contributes the items of its own flat form
FlatItems(pairs, parent) ==
    IF pairs = <<>> THEN <<>>
    ELSE LET k == pairs[1][1]
             v == pairs[1][2]
             k_parent == KParent(parent, k)
             here == IF RecurseInto(v)
                     THEN DictPairs(<<>>, FlattenPairs(FlatItems(v.pairs, k_parent)))
                     ELSE <<<<Tuple(k_parent), v>>>>
         IN here \o FlatItems(Tail(pairs), parent)

\* lines 73-99: typ(items), with typ the type of dct
dict_to_flatdict(dct, parent) ==
    Dict(dct.typ, DictPairs(<<>>, FlattenPairs(FlatItems(dct.pairs, parent))))

\* d[k] = v on an insertion-ordered mapping
DictSet(d, k, v) == Dict(d.typ, DictPairs(d.pairs, <<k, v>>))

\* d.keys()
DictKeys(d) == {d.pairs[i][1] : i \in DOMAIN d.pairs}
\* the place of key k in the mapping
DictGet(d, k) == CHOOSE i \in DOMAIN d.pairs : d.pairs[i][1] = k

\* Prefix taking the whole key tuple
PrefixWhole(key_tuple) == key_tuple

\* line 118: key_tuple[:-1]
Prefix(key_tuple) == SubSeq(key_tuple, 1, Len(key_tuple) - 1)

RECURSIVE SetDefaultPath(_, _, _, _)
\* lines 117-123 seen from the outermost mapping: setdefault(prefix_key, typ())
\* along the prefix keys, then current_dict[last] = value; item assignment on
\* a value that is no mapping raises TypeError
SetDefaultPath(d, prefix, last, value) ==
    IF d.cat # "dict" THEN Raised("TypeError")
    ELSE IF prefix = <<>> THEN DictSet(d, last, value)
    ELSE LET at == IF prefix[1] \in DictKeys(d)
                   THEN d.pairs[DictGet(d, prefix[1])][2]
                   ELSE Dict(d.typ, <<>>)
             sub == SetDefaultPath(at, Tail(prefix), last, value)
         IN IF sub.cat = "exception" THEN sub ELSE DictSet(d, prefix[1], sub)

\* a nested mapping is handed to dict_to_flatdict
FlatInit ==
    /\ fd_dct \in FlatRoots
    /\ fd_flat = Pending
    /\ fd_result = Pending
    /\ fd_i = 0
    /\ fd_pc = "flatten"
    /\ VisitIdle
    /\ BatchIdle
    /\ EcsIdle
    /\ LoopIdle

\* lines 73-99: the call dict_to_flatdict(dct); its result is then handed to
\* flatdict_to_dict, which starts from typ() (lines 115-116)
DictToFlatdict ==
    /\ fd_pc = "flatten"
    /\ fd_flat' = dict_to_flatdict(fd_dct, <<>>)
    /\ fd_result' = Dict(fd_dct.typ, <<>>)
    /\ fd_pc' = "unflatten"
    /\ UNCHANGED <<fd_dct, fd_i>>
    /\ UNCHANGED notFlatVars

\* lines 117-123: one pass of the loop over dct.items()
FlatdictToDictItem ==
    /\ fd_pc = "unflatten"
    /\ fd_i < Len(fd_flat.pairs)
    /\ LET key_tuple == fd_flat.pairs[fd_i + 1][1].items
           value == fd_flat.pairs[fd_i + 1][2]
           new == SetDefaultPath(fd_result, Prefix(key_tuple),
                                 key_tuple[Len(key_tuple)], value)
       IN /\ fd_result' = new
          /\ fd_pc' = IF new.cat = "exception" THEN "raised" ELSE fd_pc
    /\ fd_i' = fd_i + 1
    /\ UNCHANGED <<fd_dct, fd_flat>>
    /\ UNCHANGED notFlatVars

\* line 125: the loop is over, result is returned
FlatdictToDictReturn ==
    /\ fd_pc = "unflatten"
    /\ fd_i = Len(fd_flat.pairs)
    /\ fd_pc' = "returned"
    /\ UNCHANGED <<fd_dct, fd_flat, fd_result, fd_i>>
    /\ UNCHANGED notFlatVars

FlatNext == DictToFlatdict \/ FlatdictToDictItem \/ FlatdictToDictReturn

SpecFlat == FlatInit /\ [][FlatNext]_vars

\* the keys the generated mappings use, and the key paths long enough to
\* reach every value in them
FlatKeys == {PyInt(1), PyInt(2)}
KeyPaths == UNION {[1 .. m -> FlatKeys] : m \in 1 .. MaxFlatNest + 1}

Missing == [cat |-> "missing"]
NonEmptyMapping(v) == v.cat = "dict" /\ v.pairs # <<>>

RECURSIVE Lookup(_, _)
\* x[p[1]][p[2]]...: the value a key path leads to, Missing when a key is
\* absent or the path goes through something that is no mapping
Lookup(x, p) ==
    IF p = <<>> THEN x
    ELSE IF x.cat # "dict" \/ p[1] \notin DictKeys(x) THEN Missing
    ELSE Lookup(x.pairs[DictGet(x, p[1])][2], Tail(p))

RECURSIVE NoEmptySubMapping(_)
\* no value anywhere inside the mapping is an empty mapping
NoEmptySubMapping(x) ==
    \A i \in DOMAIN x.pairs :
       LET v == x.pairs[i][2]
       IN v.cat = "dict" => (v.pairs # <<>> /\ NoEmptySubMapping(v))

RECURSIVE MappingEq(_, _)
\* a == b: two OrderedDicts compare their entries in order, any other two
\* mappings compare as sets of entries; values are compared the same way
MappingEq(a, b) ==
    IF a.cat # "dict" \/ b.cat # "dict" THEN a = b
    ELSE /\ Len(a.pairs) = Len(b.pairs)
         /\ DictKeys(a) = DictKeys(b)
         /\ \A k \in DictKeys(a) :
               MappingEq(a.pairs[DictGet(a, k)][2], b.pairs[DictGet(b, k)][2])
         /\ (a.typ = "OrderedDict" /\ b.typ = "OrderedDict") =>
               \A i \in DOMAIN a.pairs : a.pairs[i][1] = b.pairs[i][1]

\* C11: for every nested mapping x with no empty sub-mapping,
\* flatdict_to_dict(dict_to_flatdict(x)) returns (it does not raise) a mapping
\* equal to x.
C11_RoundTrip ==
    (fd_pc \in {"returned", "raised"} /\ NoEmptySubMapping(fd_dct)) =>
        /\ fd_pc = "returned"
        /\ MappingEq(fd_result, fd_dct)

C11_Witness ==
    /\ fd_pc = "returned"
    /\ fd_dct = Dict("dict", <<<<PyInt(2), PyInt(1)>>,
                               <<PyInt(1), Dict("OrderedDict",
                                                <<<<PyInt(1), PyInt(2)>>,
                                                  <<PyInt(2), PyInt(2)>>>>)>>>>)
    /\ fd_flat = Dict("dict", <<<<Tuple(<<PyInt(2)>>), PyInt(1)>>,
                                <<Tuple(<<PyInt(1), PyInt(1)>>), PyInt(2)>>,
                                <<Tuple(<<PyInt(1), PyInt(2)>>), PyInt(2)>>>>)
    /\ fd_result = Dict("dict", <<<<PyInt(2), PyInt(1)>>,
                                  <<PyInt(1), Dict("dict",
                                                   <<<<PyInt(1), PyInt(2)>>,
                                                     <<PyInt(2), PyInt(2)>>>>)>>>>)

\* C12: dict_to_flatdict maps every root-to-leaf key path, as a tuple of the
\* keys from the root down, to the leaf value there; a non-empty mapping value
\* is recursed into and is no value of the output; an empty mapping value is a
\* leaf and is kept under its path.
C12_FlatKeysAreLeafPaths ==
    fd_pc # "flatten" =>
        /\ \A p \in KeyPaths :
              LET v == Lookup(fd_dct, p)
              IN IF v # Missing /\ ~NonEmptyMapping(v)
                 THEN \E i \in DOMAIN fd_flat.pairs : fd_flat.pairs[i] = <<Tuple(p), v>>
                 ELSE Tuple(p) \notin DictKeys(fd_flat)
        /\ \A i \in DOMAIN fd_flat.pairs :
              /\ fd_flat.pairs[i][1].cat = "tuple"
              /\ fd_flat.pairs[i][1].items \in KeyPaths
              /\ ~NonEmptyMapping(fd_flat.pairs[i][2])
              /\ \A j \in DOMAIN fd_flat.pairs :
                    fd_flat.pairs[i][1] = fd_flat.pairs[j][1] => i = j

C12_Witness ==
    /\ fd_pc # "flatten"
    /\ fd_dct = Dict("dict", <<<<PyInt(1), Dict("dict",
                                              <<<<PyInt(1), Dict("dict", <<>>)>>,
                                                <<PyInt(2), PyInt(2)>>>>)>>>>)
    /\ fd_flat = Dict("dict", <<<<Tuple(<<PyInt(1), PyInt(1)>>), Dict("dict", <<>>)>>,
                                <<Tuple(<<PyInt(1), PyInt(2)>>), PyInt(2)>>>>)

(* --------------------------- batched_iterable --------------------------- *)

\* the iterables tried have up to MaxBatchLen elements, the sizes are
\* -MaxNegSize .. MaxSize
MaxBatchLen == 3
MaxSize == 3
MaxNegSize == 2

\* the iterables batched_iterable is called on
Iterables == UNION {[1 .. n -> {1, 2}] : n \in 0 .. MaxBatchLen}

\* Islice taking nothing when the size is negative
IsliceNegativeEmpty(it, size) ==
    IF size < 0 THEN Tuple(<<>>)
    ELSE Tuple(SubSeq(it, 1, IF size < Len(it) THEN size ELSE Len(it)))

\* line 203: tuple(itertools.islice(it, size)): the next `size` elements,
\* fewer when the iterator runs out; islice refuses a negative stop with
\* ValueError
Islice(it, size) ==
    IF size < 0 THEN Raised("ValueError")
    ELSE Tuple(SubSeq(it, 1, IF size < Len(it) THEN size ELSE Len(it)))

\* lines 190-200: the call makes a generator; none of its body has run
BatchInit ==
    /\ bi_iterable \in Iterables
    /\ bi_size \in -MaxNegSize .. MaxSize
    /\ bi_it = bi_iterable
    /\ bi_batches = <<>>
    /\ bi_exc = None
    /\ bi_pc = "created"
    /\ VisitIdle
    /\ FlatIdle
    /\ EcsIdle
    /\ LoopIdle

\* lines 201-206: next() on the generator runs one pass of the loop; it ends
\* with the exception of islice
BatchRaise ==
    /\ bi_pc \in {"created", "suspended"}
    /\ Islice(bi_it, bi_size).cat = "exception"
    /\ bi_exc' = Islice(bi_it, bi_size)
    /\ bi_pc' = "raised"
    /\ UNCHANGED <<bi_iterable, bi_size, bi_it, bi_batches>>
    /\ UNCHANGED notBatchVars

\* ... or with `yield batch`
BatchYield ==
    /\ bi_pc \in {"created", "suspended"}
    /\ Islice(bi_it, bi_size).cat = "tuple"
    /\ Islice(bi_it, bi_size).items # <<>>
    /\ bi_batches' = Append(bi_batches, Islice(bi_it, bi_size))
    /\ bi_it' = SubSeq(bi_it, Len(Islice(bi_it, bi_size).items) + 1, Len(bi_it))
    /\ bi_pc' = "suspended"
    /\ UNCHANGED <<bi_iterable, bi_size, bi_exc>>
    /\ UNCHANGED notBatchVars

\* ... or with `break` on an empty batch: the generator is exhausted
BatchBreak ==
    /\ bi_pc \in {"created", "suspended"}
    /\ Islice(bi_it, bi_size) = Tuple(<<>>)
    /\ bi_pc' = "done"
    /\ UNCHANGED <<bi_iterable, bi_size, bi_it, bi_batches, bi_exc>>
    /\ UNCHANGED notBatchVars

BatchNext == BatchRaise \/ BatchYield \/ BatchBreak

SpecBatch == BatchInit /\ [][BatchNext]_vars

\* the generator was run until it stopped
BatchOver == bi_pc \in {"done", "raised"}

\* C13 as stated: for every size <= 0 batched_iterable fails with an
\* invalid-argument error, rather than yielding a batch or yielding nothing
\* without an error.
C13_NonPositiveSizeRaises ==
    (bi_size <= 0 /\ BatchOver) =>
        /\ bi_pc = "raised"
        /\ bi_exc = Raised("ValueError")

\* C13, amended: for a negative size the generator raises ValueError when its
\* first batch is asked for and yields nothing; for size 0 it raises nothing
\* and ends without yielding any batch, whatever the iterable holds.
C13_NegativeRaisesZeroYieldsNothing ==
    /\ (bi_size < 0 /\ bi_pc # "created") =>
          /\ bi_pc = "raised"
          /\ bi_exc = Raised("ValueError")
          /\ bi_batches = <<>>
    /\ (bi_size = 0 /\ bi_pc # "created") =>
          /\ bi_pc = "done"
          /\ bi_exc = None
          /\ bi_batches = <<>>
          /\ bi_it = bi_iterable

C13_Witness ==
    /\ bi_size = 0
    /\ bi_iterable = <<1, 2>>
    /\ bi_pc = "done"
    /\ bi_batches = <<>>

(* ------------------------------- ECSRun --------------------------------- *)

PyStr(text) == [cat |-> "str", text |-> text]

\* a path argument: the scheme before "://" ("" when the string has none) and
\* the rest
Url(scheme, path) == [cat |-> "url", scheme |-> scheme, path |-> path]

\* the task definitions passed in: an empty one (as in the tests) and one
\* with a family
TaskDefinitions ==
    {Dict("dict", <<>>),
     Dict("dict", <<<<PyStr("family"), PyStr("given")>>>>)}

\* the paths passed in: local ones with and without a scheme, one whose file
\* does not exist, one whose file is empty, and remote ones
TaskDefinitionPaths ==
    {Url("", "/def.yaml"), Url("file", "/def.yaml"), Url("local", "/def.yaml"),
     Url("", "/missing.yaml"), Url("file", "/empty.yaml"),
     Url("s3", "bucket/def.yaml"), Url("gcs", "bucket/def.yaml"),
     Url("agent", "/def.yaml")}

\* what open(path) and yaml.safe_load give for the files on disk: a mapping,
\* None for an empty document, FileNotFoundError for no file
SafeLoad(path) ==
    CASE path = "/def.yaml" -> Dict("dict", <<<<PyStr("family"), PyStr("on-disk")>>>>)
      [] path = "/empty.yaml" -> None
      [] OTHER -> Raised("FileNotFoundError")

\* parse_path: a path with no scheme or with the scheme "local" is a local
\* file and gets the scheme "file"; every other scheme is kept
parse_path(url) ==
    [scheme |-> IF url.scheme \in {"", "local"} THEN "file" ELSE url.scheme,
     path |-> url.path]

\* str(n) for the numbers passed as cpu and memory
Decimal(n) ==
    CASE n = 512 -> "512"
      [] n = 1024 -> "1024"
      [] n = 2048 -> "2048"

\* lines 122-125: str(cpu), str(memory) when given
Str(x) ==
    CASE x.cat = "none" -> None
      [] x.cat = "int" -> PyStr(Decimal(x.v))
      [] x.cat = "str" -> x

\* BothGiven never objecting
BothGivenAllowed(task_definition, task_definition_path) == FALSE

\* line 111
BothGiven(task_definition, task_definition_path) ==
    task_definition # None /\ task_definition_path # None

\* lines 115-117: a path is given and its parsed scheme is "file"
ReadsFile(task_definition_path) ==
    /\ task_definition_path # None
    /\ parse_path(task_definition_path).scheme = "file"

\* ECSRun(...) is called
EcsInit ==
    /\ ecs_kwargs \in [task_definition : {None} \cup TaskDefinitions,
                       task_definition_path : {None} \cup TaskDefinitionPaths,
                       cpu : {None, PyInt(1024), PyStr("1 vcpu")},
                       memory : {None, PyInt(2048)}]
    /\ ecs_self = Pending
    /\ ecs_exc = None
    /\ ecs_pc = "init"
    /\ VisitIdle
    /\ FlatIdle
    /\ BatchIdle
    /\ LoopIdle

\* lines 111-114: both arguments given
ECSRunRaiseBoth ==
    /\ ecs_pc = "init"
    /\ BothGiven(ecs_kwargs.task_definition, ecs_kwargs.task_definition_path)
    /\ ecs_exc' = Raised("ValueError")
    /\ ecs_pc' = "raised"
    /\ UNCHANGED <<ecs_kwargs, ecs_self>>
    /\ UNCHANGED notEcsVars

\* lines 115-119: the local file cannot be opened
ECSRunRaiseOpen ==
    /\ ecs_pc = "init"
    /\ ~BothGiven(ecs_kwargs.task_definition, ecs_kwargs.task_definition_path)
    /\ ReadsFile(ecs_kwargs.task_definition_path)
    /\ SafeLoad(parse_path(ecs_kwargs.task_definition_path).path).cat = "exception"
    /\ ecs_exc' = SafeLoad(parse_path(ecs_kwargs.task_definition_path).path)
    /\ ecs_pc' = "raised"
    /\ UNCHANGED <<ecs_kwargs, ecs_self>>
    /\ UNCHANGED notEcsVars

\* lines 115-133: the constructor runs to its end; a local file is read into
\* task_definition and the path is cleared (lines 118-120)
ECSRunConstruct ==
    /\ ecs_pc = "init"
    /\ ~BothGiven(ecs_kwargs.task_definition, ecs_kwargs.task_definition_path)
    /\ LET local == ReadsFile(ecs_kwargs.task_definition_path)
           loaded == SafeLoad(parse_path(ecs_kwargs.task_definition_path).path)
       IN /\ local => loaded.cat # "exception"
          /\ ecs_self' =
                [task_definition |-> IF local THEN loaded
                                     ELSE ecs_kwargs.task_definition,
                 task_definition_path |-> IF local THEN None
                                          ELSE ecs_kwargs.task_definition_path,
                 cpu |-> Str(ecs_kwargs.cpu),
                 memory |-> Str(ecs_kwargs.memory)]
    /\ ecs_pc' = "constructed"
    /\ UNCHANGED <<ecs_kwargs, ecs_exc>>
    /\ UNCHANGED notEcsVars

EcsNext == ECSRunRaiseBoth \/ ECSRunRaiseOpen \/ ECSRunConstruct

SpecEcs == EcsInit /\ [][EcsNext]_vars

\* the schemes of a local path: none, "file" or "local"
LocalSchemes == {"", "file", "local"}

\* C14: giving both task_definition and task_definition_path fails with
\* ValueError; a constructed ECSRun has at most one of the two set; a local
\* path is read at construction, its content stored as task_definition and
\* task_definition_path cleared to None; a remote path is kept as
\* task_definition_path with task_definition None.
C14_AtMostOneOfDefinitionAndPath ==
    LET td == ecs_kwargs.task_definition
        path == ecs_kwargs.task_definition_path
    IN ecs_pc # "init" =>
        /\ (td # None /\ path # None) =>
              (ecs_pc = "raised" /\ ecs_exc = Raised("ValueError"))
        /\ ecs_pc = "constructed" =>
              /\ ecs_self.task_definition = None \/ ecs_self.task_definition_path = None
              /\ (path # None /\ path.scheme \in LocalSchemes) =>
                    /\ ecs_self.task_definition = SafeLoad(path.path)
                    /\ ecs_self.task_definition_path = None
              /\ (path # None /\ path.scheme \notin LocalSchemes) =>
                    /\ ecs_self.task_definition_path = path
                    /\ ecs_self.task_definition = None
              /\ path = None =>
                    /\ ecs_self.task_definition = td
                    /\ ecs_self.task_definition_path = None

C14_Witness ==
    /\ ecs_pc = "constructed"
    /\ ecs_kwargs.task_definition = None
    /\ ecs_kwargs.task_definition_path = Url("local", "/def.yaml")
    /\ ecs_self.task_definition = Dict("dict", <<<<PyStr("family"), PyStr("on-disk")>>>>)
    /\ ecs_self.task_definition_path = None

(* ------------------- visit_collection: basis for descent ---------------- *)

\* C16 as stated: the children are taken from visit_fn's return value r
\* exactly when copy mode is on or the visited node is a revisit annotation;
\* otherwise they are taken from the visited node and r is discarded.
C16_BasisDecidedByVisitedNode ==
    \A i \in DOMAIN log :
       IF return_data \/ log[i].node.cat = "revisit"
       THEN log[i].basis = log[i].r
       ELSE log[i].basis = log[i].node

\* C16, amended: the children are taken from visit_fn's return value r
\* exactly when copy mode is on or r itself is a revisit annotation, whatever
\* the visited node is; in observe-only mode with any other r they are taken
\* from the visited node, a revisit annotation included, and r is discarded.
C16_BasisDecidedByReturnValue ==
    \A i \in DOMAIN log :
       IF return_data \/ log[i].r.cat = "revisit"
       THEN log[i].basis = log[i].r
       ELSE log[i].basis = log[i].node

\* observe-only mode: a node that is no revisit annotation, for which visit_fn
\* returns one, is descended into through the annotation returned
C16_Witness ==
    /\ ~return_data
    /\ \E i \in DOMAIN log :
          /\ log[i].node.cat # "revisit"
          /\ log[i].r.cat = "revisit"
          /\ log[i].basis = log[i].r
          /\ log[i].basis # log[i].node
          /\ log[i].depth # 0
          /\ CallsBelow(log[i].path) # {}

(* -------------------------- run_in_loop_thread -------------------------- *)

\* the loop's queue holds up to MaxCallbacks callbacks other than the wrapper
MaxCallbacks == 2

\* what fn does when it is called: return a value, raise an Exception, or
\* raise a BaseException that is no Exception
Fns ==
    {[kind |-> "return", value |-> PyInt(1)],
     [kind |-> "return", value |-> None],
     [kind |-> "Exception", value |-> Raised("ValueError")],
     [kind |-> "BaseException", value |-> Raised("KeyboardInterrupt")]}

\* line 37: a new concurrent.futures.Future
PendingFuture == [state |-> "pending", value |-> None]

\* CallSoonThreadsafe losing the callback
CallSoonThreadsafeLost(ready, callback) == ready

\* line 48: __loop.call_soon_threadsafe(wrapper) puts the callback at the end
\* of the loop's queue
CallSoonThreadsafe(ready, callback) == Append(ready, callback)

\* SetFuture storing an exception as if fn had returned it
SetFutureAlwaysResult(fn) == [state |-> "result", value |-> fn.value]

\* lines 41-44: future.set_result(value) or future.set_exception(exc)
SetFuture(fn) ==
    IF fn.kind = "return" THEN [state |-> "result", value |-> fn.value]
    ELSE [state |-> "exception", value |-> fn.value]

\* run_in_loop_thread(loop, fn) is called from another thread, or from a
\* callback the loop's thread is running
LoopInit ==
    /\ rl_caller \in {"other", "loop"}
    /\ rl_fn \in Fns
    /\ rl_ready \in {[i \in 1 .. n |-> "callback"] : n \in 0 .. MaxCallbacks}
    /\ rl_running = IF rl_caller = "loop" THEN "caller" ELSE "none"
    /\ rl_loop = "running"
    /\ rl_fn_pc = "not called"
    /\ rl_calls = <<>>
    /\ rl_future = None
    /\ rl_caller_pc = "start"
    /\ rl_outcome = Pending
    /\ VisitIdle
    /\ FlatIdle
    /\ BatchIdle
    /\ EcsIdle

\* the calling thread is free to take its next step: it is another thread, or
\* it is the loop's thread inside the calling callback
CallerRuns == rl_caller = "other" \/ rl_running = "caller"

\* line 37
CreateFuture ==
    /\ rl_caller_pc = "start"
    /\ CallerRuns
    /\ rl_future' = PendingFuture
    /\ rl_caller_pc' = "created"
    /\ UNCHANGED <<rl_caller, rl_fn, rl_ready, rl_running, rl_loop, rl_fn_pc,
                   rl_calls, rl_outcome>>
    /\ UNCHANGED notLoopVars

\* line 48
ScheduleWrapper ==
    /\ rl_caller_pc = "created"
    /\ CallerRuns
    /\ rl_ready' = CallSoonThreadsafe(rl_ready, "wrapper")
    /\ rl_caller_pc' = "waiting"
    /\ UNCHANGED <<rl_caller, rl_fn, rl_running, rl_loop, rl_fn_pc, rl_calls,
                   rl_future, rl_outcome>>
    /\ UNCHANGED notLoopVars

\* line 49: future.result() blocks the calling thread until the future is
\* set, then returns its result or raises its exception; a calling callback
\* then ends and the loop's thread is free again
FutureResult ==
    /\ rl_caller_pc = "waiting"
    /\ CallerRuns
    /\ rl_future.state # "pending"
    /\ rl_caller_pc' = IF rl_future.state = "result" THEN "returned" ELSE "raised"
    /\ rl_outcome' = rl_future.value
    /\ rl_running' = IF rl_caller = "loop" THEN "none" ELSE rl_running
    /\ UNCHANGED <<rl_caller, rl_fn, rl_ready, rl_loop, rl_fn_pc, rl_calls, rl_future>>
    /\ UNCHANGED notLoopVars

\* some other thread schedules a callback on the loop
ScheduleCallback ==
    /\ rl_loop = "running"
    /\ Cardinality({i \in DOMAIN rl_ready : rl_ready[i] = "callback"}) < MaxCallbacks
    /\ rl_ready' = CallSoonThreadsafe(rl_ready, "callback")
    /\ UNCHANGED <<rl_caller, rl_fn, rl_running, rl_loop, rl_fn_pc, rl_calls,
                   rl_future, rl_caller_pc, rl_outcome>>
    /\ UNCHANGED notLoopVars

\* the loop's thread runs the next scheduled callback, one that is not the wrapper
RunCallback ==
    /\ rl_loop = "running"
    /\ rl_running = "none"
    /\ rl_ready # <<>>
    /\ Head(rl_ready) = "callback"
    /\ rl_ready' = Tail(rl_ready)
    /\ UNCHANGED <<rl_caller, rl_fn, rl_running, rl_loop, rl_fn_pc, rl_calls,
                   rl_future, rl_caller_pc, rl_outcome>>
    /\ UNCHANGED notLoopVars

\* lines 40-42: the loop's thread runs the wrapper, which calls fn
WrapperCallsFn ==
    /\ rl_loop = "running"
    /\ rl_running = "none"
    /\ rl_ready # <<>>
    /\ Head(rl_ready) = "wrapper"
    /\ rl_ready' = Tail(rl_ready)
    /\ rl_running' = "wrapper"
    /\ rl_fn_pc' = "running"
    /\ rl_calls' = Append(rl_calls, "loop")
    /\ UNCHANGED <<rl_caller, rl_fn, rl_loop, rl_future, rl_caller_pc, rl_outcome>>
    /\ UNCHANGED notLoopVars

\* fn returns or raises
FnFinishes ==
    /\ rl_running = "wrapper"
    /\ rl_fn_pc = "running"
    /\ rl_fn_pc' = "finished"
    /\ UNCHANGED <<rl_caller, rl_fn, rl_ready, rl_running, rl_loop, rl_calls,
                   rl_future, rl_caller_pc, rl_outcome>>
    /\ UNCHANGED notLoopVars

\* lines 42-46: the wrapper sets the future; after a BaseException that is no
\* Exception it goes on to raise it again
WrapperSetsFuture ==
    /\ rl_running = "wrapper"
    /\ rl_fn_pc = "finished"
    /\ rl_future' = SetFuture(rl_fn)
    /\ rl_running' = IF rl_fn.kind = "BaseException" THEN "reraise" ELSE "none"
    /\ UNCHANGED <<rl_caller, rl_fn, rl_ready, rl_loop, rl_fn_pc, rl_calls,
                   rl_caller_pc, rl_outcome>>
    /\ UNCHANGED notLoopVars

\* lines 45-46: the exception leaves the wrapper in the loop's thread; the
\* loop reports it and goes on, or is stopped by it
WrapperReraises ==
    /\ rl_running = "reraise"
    /\ rl_running' = "none"
    /\ rl_loop' \in {"running", "stopped"}
    /\ UNCHANGED <<rl_caller, rl_fn, rl_ready, rl_fn_pc, rl_calls, rl_future,
                   rl_caller_pc, rl_outcome>>
    /\ UNCHANGED notLoopVars

\* the steps of the caller's code, and those of the loop's own code
CallerSteps == CreateFuture \/ ScheduleWrapper \/ FutureResult
LoopSteps == RunCallback \/ WrapperCallsFn \/ FnFinishes \/ WrapperSetsFuture
             \/ WrapperReraises

LoopNext ==
    \/ CreateFuture
    \/ ScheduleWrapper
    \/ FutureResult
    \/ ScheduleCallback
    \/ RunCallback
    \/ WrapperCallsFn
    \/ FnFinishes
    \/ WrapperSetsFuture
    \/ WrapperReraises

\* every thread that can take a step eventually takes one: the loop keeps
\* running its scheduled callbacks, fn terminates, the caller is scheduled
SpecLoop ==
    LoopInit /\ [][LoopNext]_vars /\ WF_vars(CallerSteps) /\ WF_vars(LoopSteps)

\* the call has returned or raised in the calling thread
CallOver == rl_caller_pc \in {"returned", "raised"}

\* C15: a call from a thread other than the loop's executes fn exactly once,
\* on the loop's thread; it does not return before fn has finished; it returns
\* the value fn returned, or raises in the calling thread the exception fn
\* raised.
C15_RunsOnceOnLoopThreadAndDeliversOutcome ==
    rl_caller = "other" =>
        /\ Len(rl_calls) <= 1
        /\ \A i \in DOMAIN rl_calls : rl_calls[i] = "loop"
        /\ CallOver =>
              /\ rl_calls = <<"loop">>
              /\ rl_fn_pc = "finished"
              /\ rl_outcome = rl_fn.value
              /\ rl_caller_pc = IF rl_fn.kind = "return" THEN "returned" ELSE "raised"

C15_Witness ==
    /\ rl_caller = "other"
    /\ rl_fn.kind = "BaseException"
    /\ rl_caller_pc = "raised"
    /\ rl_outcome = Raised("KeyboardInterrupt")
    /\ rl_calls = <<"loop">>
    /\ rl_loop = "stopped"

\* C17 as stated: every call of run_in_loop_thread eventually returns or
\* raises in the calling thread, whichever thread makes the call, the loop's
\* own thread included.
C17_EveryCallCompletes == <>CallOver

\* C17, amended: a call made from a thread other than the loop's eventually
\* returns or raises in the calling thread; a call made from the loop's own
\* thread never does: the caller blocks the loop's thread on the future, so
\* the scheduled wrapper never runs.
C17_OnlyCallsFromOtherThreadsComplete ==
    /\ (rl_caller = "other") ~> CallOver
    /\ [](rl_caller = "loop" => ~CallOver /\ rl_calls = <<>>)

C17_Witness ==
    /\ rl_caller = "other"
    /\ rl_fn.kind = "return"
    /\ rl_caller_pc = "returned"
    /\ rl_outcome = PyInt(1)
    /\ rl_calls = <<"loop">>
    /\ rl_ready = <<"callback">>

====
